---- MODULE Spec2Model ----
(***************************************************************************)
(* State-machine model of the supplier marketplace backend: the Product,   *)
(* ProductSales and SupplierProfile tables, the handlers that write them   *)
(* (product add/edit, sale add/edit/delete) and the analytics handlers     *)
(* that read them (kpis, top-products, inventory, alerts), the handlers    *)
(* served statement by statement where requests run together, and the     *)
(* connection pool of db.js with its queryDB calls.                        *)
(*                                                                         *)
(* Money is counted in whole currency units.  A percentage that the SQL    *)
(* rounds to two decimals (ROUND(x, 2)) is held as an integer number of    *)
(* hundredths of a percent: 5000 stands for 50.00.                         *)
(***************************************************************************)
EXTENDS Integers, Sequences, FiniteSets, TLC

VARIABLES Plan, SupplierProfile, Product, ProductSales, nextSaleId, today, res,
          queried, job, pool, poolsCreated, lost, calls, reqs

vars == <<Plan, SupplierProfile, Product, ProductSales, nextSaleId, today, res, queried, job,
          pool, poolsCreated, lost, calls, reqs>>

(* the connection pool of db.js with its queryDB calls, and the requests   *)
(* that are served statement by statement                                  *)
dbVars == <<pool, poolsCreated, lost, calls>>

asyncVars == <<dbVars, reqs>>

-----------------------------------------------------------------------------
(* Bounds of the model *)

MaxProducts == 2
MaxSales == 2
MaxRows == 2
MaxDate == 3
MaxCalls == 2
MaxAttempts == 3
MaxRequests == 2

(* Program constants *)

KpiWindowDays == 30
LowStockThreshold == 5
TopLimit == 5
HighMarginPercent == 40
AgingDays == 30

(* The calendar of the model ends one day after a full KPI window *)
MaxDay == KpiWindowDays + 1


-----------------------------------------------------------------------------
(* SQL values: a nullable column or expression is <<>> (NULL) or <<v>> *)

NULL == <<>>
Val(x) == <<x>>
IsNull(v) == v = NULL
Num(v) == v[1]

Abs(n) == IF n < 0 THEN -n ELSE n

(* the expression without its IFNULL *)
IfNullOmitted(v, d) == v

(* IFNULL(v, d) *)
IfNull(v, d) == IF IsNull(v) THEN Val(d) ELSE v

NullIf(v, x) == IF ~IsNull(v) /\ Num(v) = x THEN NULL ELSE v

SqlMul(a, b) == IF IsNull(a) \/ IsNull(b) THEN NULL ELSE Val(Num(a) * Num(b))

SqlSub(a, b) == IF IsNull(a) \/ IsNull(b) THEN NULL ELSE Val(Num(a) - Num(b))

RECURSIVE SumNonNull(_, _)
SumNonNull(f, S) ==
  IF S = {} THEN 0
  ELSE LET r == CHOOSE x \in S : TRUE
       IN  (IF IsNull(f[r]) THEN 0 ELSE Num(f[r])) + SumNonNull(f, S \ {r})

(* SUM(expr): f maps every row of the result set to the value of expr.   *)
(* NULL values are skipped; the sum of no non-NULL value is NULL.        *)
SqlSum(f) ==
  IF \A r \in DOMAIN f : IsNull(f[r]) THEN NULL
  ELSE Val(SumNonNull(f, DOMAIN f))

(* n / d rounded to the nearest integer, halves away from zero (d # 0) *)
RoundDiv(n, d) ==
  LET q == (2 * Abs(n) + Abs(d)) \div (2 * Abs(d))
  IN  IF (n < 0) # (d < 0) THEN -q ELSE q

(* ROUND(a / b * 100, 2) in hundredths of a percent; a / 0 is NULL *)
SqlRoundPct(a, b) ==
  IF IsNull(a) \/ IsNull(b) THEN NULL
  ELSE IF Num(b) = 0 THEN NULL
  ELSE Val(RoundDiv(Num(a) * 10000, Num(b)))

-----------------------------------------------------------------------------
(* Users and tenant resolution *)

Users == 1 .. 3

(* a profile id for every caller, with or without a SupplierProfile row *)
ProfileIdUnchecked(userId) == Val(userId)

(* getSupplierProfileId: id of the first SupplierProfile row of the user *)
getSupplierProfileId(userId) ==
  LET ids == {i \in 1 .. Len(SupplierProfile) : SupplierProfile[i].user_id = userId}
  IN  IF ids = {} THEN NULL
      ELSE Val(CHOOSE i \in ids : \A j \in ids : i <= j)

ProductIds == 1 .. Len(Product)

SaleIds == DOMAIN ProductSales

StoreProducts(store) == {p \in ProductIds : Product[p].store_id = store}

-----------------------------------------------------------------------------
(* Responses *)

NoResponse == [op |-> "none", user |-> 0, status |-> 0, body |-> NULL]

Reply(op, user, status, body) ==
  [op |-> op, user |-> user, status |-> status, body |-> body]

(* the response to a request that carries a query parameter *)
ReplyTo(op, user, query, status, body) == Reply(op, user, status, body) @@ [query |-> query]

(* queried: the tables the last request has sent a query to.  A handler   *)
(* that looks the caller's profile up first and returns when there is     *)
(* none sends no other query.                                             *)
TablesRead(supplierId, tables) ==
  IF IsNull(supplierId) THEN {"SupplierProfile"} ELSE {"SupplierProfile"} \cup tables

(* job: the request that is being served one query at a time, if any *)
Idle == [op |-> "none"]

-----------------------------------------------------------------------------
(* FROM Product p LEFT JOIN ProductSales ps ON p.id = ps.product_id AND    *)
(* <condition on ps> WHERE p.store_id = store.  on is the set of sales     *)
(* that meet the condition on ps.  A joined row is <<product id, sale id>>; *)
(* sale id 0 is the all-NULL ps of a product without a matching sale.      *)

JoinRows(p, on) ==
  LET match == {s \in on : ProductSales[s].product_id = p}
  IN  IF match = {} THEN {<<p, 0>>} ELSE {<<p, s>> : s \in match}

LeftJoin(store, on) == UNION {JoinRows(p, on) : p \in StoreProducts(store)}

(* the KPI join without its date condition *)
KpiJoinAllTime(store) == LeftJoin(store, SaleIds)

(* ... AND ps.sale_date >= DATE_SUB(CURDATE(), INTERVAL 30 DAY) *)
KpiJoin(store) ==
  LeftJoin(store, {s \in SaleIds : ProductSales[s].sale_date >= today - KpiWindowDays})

PsCol(r, col) == IF r[2] = 0 THEN NULL ELSE Val(ProductSales[r[2]][col])

(* GET /kpis: the row of aggregates *)
KpiRow(store) ==
  LET rows == KpiJoin(store)
      purchase(r) == Product[r[1]].supplier_purchase_price
      stock(r) == Product[r[1]].stock_quantity
      sumProfit == SqlSum([r \in rows |-> PsCol(r, "profit")])
      sumAmount == SqlSum([r \in rows |-> PsCol(r, "total_sale_amount")])
  IN  [total_investment |->
         IfNull(SqlSum([r \in rows |-> SqlMul(purchase(r), PsCol(r, "quantity_sold"))]), 0),
       total_sales_value |-> IfNull(sumAmount, 0),
       total_profit |-> IfNull(sumProfit, 0),
       profit_margin |-> IfNull(SqlRoundPct(sumProfit, NullIf(sumAmount, 0)), 0),
       stock_value |->
         IfNull(SqlSum([r \in rows |-> SqlMul(purchase(r), Val(stock(r)))]), 0),
       out_of_stock_percentage |->
         IfNull(SqlRoundPct(SqlSum([r \in rows |-> Val(IF stock(r) = 0 THEN 1 ELSE 0)]),
                            NullIf(Val(Cardinality(rows)), 0)), 0)]

GetKpis(u) ==
  LET supplierId == getSupplierProfileId(u)
  IN  /\ res' = IF IsNull(supplierId)
                THEN Reply("kpis", u, 404, NULL)
                ELSE Reply("kpis", u, 200, KpiRow(Num(supplierId)))
      /\ queried' = TablesRead(supplierId, {"Product", "ProductSales"})
      /\ UNCHANGED <<Plan, SupplierProfile, Product, ProductSales, nextSaleId, today, job, asyncVars>>

-----------------------------------------------------------------------------
(* POST /product/add.  purchase, sold and category are the body's values:  *)
(* NULL when the field is absent, and `value || null` stores NULL for an   *)
(* empty one.                                                              *)

AddProduct(u, purchase, sold, stock, category) ==
  LET supplierId == getSupplierProfileId(u)
  IN  /\ IF IsNull(supplierId)
         THEN /\ res' = Reply("addProduct", 0, 400, NULL)
              /\ UNCHANGED Product
         ELSE IF Cardinality(StoreProducts(Num(supplierId))) >= Plan.upload_limit
         THEN /\ res' = Reply("addProduct", 0, 403, NULL)
              /\ UNCHANGED Product
         ELSE /\ Product' = Append(Product,
                   [store_id |-> Num(supplierId),
                    supplier_purchase_price |-> purchase,
                    supplier_sold_price |-> sold,
                    stock_quantity |-> stock,
                    category |-> IF category = Val("") THEN NULL ELSE category,
                    created_at |-> today])
              /\ res' = Reply("addProduct", 0, 200, NULL)
      /\ queried' = TablesRead(supplierId, {"Plan", "Product"})
      /\ UNCHANGED <<Plan, SupplierProfile, ProductSales, nextSaleId, today, job, asyncVars>>

-----------------------------------------------------------------------------
(* POST /api/sales/add *)

AddSale(u, product_id, finalQuantity, finalSalePrice) ==
  LET supplierId == getSupplierProfileId(u)
  IN  /\ IF product_id = 0 \/ finalQuantity = 0 \/ finalSalePrice = 0
         THEN /\ res' = Reply("addSale", 0, 400, NULL)
              /\ UNCHANGED <<Product, ProductSales, nextSaleId>>
         ELSE IF IsNull(supplierId)
         THEN /\ res' = Reply("addSale", 0, 404, NULL)
              /\ UNCHANGED <<Product, ProductSales, nextSaleId>>
         ELSE IF product_id \notin StoreProducts(Num(supplierId))
         THEN /\ res' = Reply("addSale", 0, 403, NULL)
              /\ UNCHANGED <<Product, ProductSales, nextSaleId>>
         ELSE IF IsNull(Product[product_id].supplier_purchase_price)
         THEN \* parseFloat(null) is NaN, the INSERT of a NaN profit is rejected
              /\ res' = Reply("addSale", 0, 500, NULL)
              /\ UNCHANGED <<Product, ProductSales, nextSaleId>>
         ELSE LET supplierPurchasePrice == Num(Product[product_id].supplier_purchase_price)
                  profit == (finalSalePrice - supplierPurchasePrice) * finalQuantity
                  totalAmount == finalSalePrice * finalQuantity
              IN  /\ ProductSales' = ProductSales @@ (nextSaleId :>
                        [product_id |-> product_id,
                         quantity_sold |-> finalQuantity,
                         sold_price_per_unit |-> finalSalePrice,
                         total_sale_amount |-> totalAmount,
                         profit |-> profit,
                         sale_date |-> today])
                  /\ nextSaleId' = nextSaleId + 1
                  /\ Product' = [Product EXCEPT ![product_id].stock_quantity = @ - finalQuantity]
                  /\ res' = Reply("addSale", 0, 200, NULL)
      /\ queried' = IF product_id = 0 \/ finalQuantity = 0 \/ finalSalePrice = 0 THEN {}
                    ELSE IF IsNull(supplierId) \/ product_id \notin StoreProducts(Num(supplierId))
                    THEN TablesRead(supplierId, {"Product"})
                    ELSE TablesRead(supplierId, {"Product", "ProductSales"})
      /\ UNCHANGED <<Plan, SupplierProfile, today, job, asyncVars>>

-----------------------------------------------------------------------------
(* null is 0 in JavaScript arithmetic *)
JsNumber(v) == IF IsNull(v) THEN 0 ELSE Num(v)

(* PUT /api/sales/:id.  quantity_sold and sold_price_per_unit are NULL when *)
(* the body leaves them undefined.                                          *)

EditSale(u, id, quantity_sold, sold_price_per_unit) ==
  LET supplierId == getSupplierProfileId(u)
  IN  /\ IF IsNull(quantity_sold) /\ IsNull(sold_price_per_unit)
         THEN /\ res' = Reply("editSale", 0, 400, NULL)
              /\ UNCHANGED ProductSales
         ELSE IF IsNull(supplierId)
         THEN /\ res' = Reply("editSale", 0, 404, NULL)
              /\ UNCHANGED ProductSales
         ELSE IF id \notin SaleIds
         THEN /\ res' = Reply("editSale", 0, 404, NULL)
              /\ UNCHANGED ProductSales
         ELSE IF Product[ProductSales[id].product_id].store_id # Num(supplierId)
         THEN /\ res' = Reply("editSale", 0, 403, NULL)
              /\ UNCHANGED ProductSales
         ELSE LET sale == ProductSales[id]
                  \* a null purchase price is 0 in the JavaScript subtraction
                  purchase == JsNumber(Product[sale.product_id].supplier_purchase_price)
                  newQuantity == IF IsNull(quantity_sold) THEN sale.quantity_sold
                                 ELSE Num(quantity_sold)
                  newPrice == IF IsNull(sold_price_per_unit) THEN sale.sold_price_per_unit
                              ELSE Num(sold_price_per_unit)
              IN  /\ ProductSales' = [ProductSales EXCEPT ![id] =
                        [@ EXCEPT !.quantity_sold = newQuantity,
                                  !.sold_price_per_unit = newPrice,
                                  !.total_sale_amount = newQuantity * newPrice,
                                  !.profit = (newPrice - purchase) * newQuantity]]
                  /\ res' = Reply("editSale", 0, 200, NULL)
      /\ queried' = IF IsNull(quantity_sold) /\ IsNull(sold_price_per_unit) THEN {}
                    ELSE TablesRead(supplierId, {"Product", "ProductSales"})
      /\ UNCHANGED <<Plan, SupplierProfile, Product, nextSaleId, today, job, asyncVars>>

(* DELETE /api/sales/:id *)

DeleteSale(u, id) ==
  LET supplierId == getSupplierProfileId(u)
  IN  /\ IF IsNull(supplierId)
         THEN /\ res' = Reply("deleteSale", 0, 404, NULL)
              /\ UNCHANGED ProductSales
         ELSE IF \/ id \notin SaleIds
                 \/ Product[ProductSales[id].product_id].store_id # Num(supplierId)
         THEN /\ res' = Reply("deleteSale", 0, 404, NULL)
              /\ UNCHANGED ProductSales
         ELSE /\ ProductSales' = [s \in SaleIds \ {id} |-> ProductSales[s]]
              /\ res' = Reply("deleteSale", 0, 200, NULL)
      /\ queried' = TablesRead(supplierId, {"Product", "ProductSales"})
      /\ UNCHANGED <<Plan, SupplierProfile, Product, nextSaleId, today, job, asyncVars>>

-----------------------------------------------------------------------------
(* Result orders.  ORDER BY leaves the order of rows with equal keys to    *)
(* the server: every order that respects the key is a possible result.     *)

(* the rows in ascending order of the key *)
RECURSIVE OrderAscending(_, _)
OrderAscending(S, key) ==
  IF S = {} THEN {<<>>}
  ELSE LET first == {x \in S : \A y \in S : key[x] <= key[y]}
       IN  UNION {{<<x>> \o t : t \in OrderAscending(S \ {x}, key)} : x \in first}

RECURSIVE OrderByDesc(_, _)
OrderByDesc(S, key) ==
  IF S = {} THEN {<<>>}
  ELSE LET first == {x \in S : \A y \in S : key[x] >= key[y]}
       IN  UNION {{<<x>> \o t : t \in OrderByDesc(S \ {x}, key)} : x \in first}

OrderByAsc(S, key) == OrderByDesc(S, [x \in S |-> -key[x]])

Limit(f, n) == [i \in 1 .. (IF Len(f) < n THEN Len(f) ELSE n) |-> f[i]]

-----------------------------------------------------------------------------
(* GET /inventory *)

StockStatus(stock_quantity) ==
  IF stock_quantity = 0 THEN "Out of Stock"
  ELSE IF stock_quantity < LowStockThreshold THEN "Low Stock"
  ELSE "In Stock"

InventoryRow(p) ==
  [id |-> p,
   stock_quantity |-> Product[p].stock_quantity,
   stock_status |-> StockStatus(Product[p].stock_quantity),
   age_in_days |-> today - Product[p].created_at]

GetInventory(u) ==
  LET supplierId == getSupplierProfileId(u)
  IN  /\ IF IsNull(supplierId)
         THEN res' = Reply("inventory", u, 404, NULL)
         ELSE \E order \in OrderByAsc(StoreProducts(Num(supplierId)),
                                      [p \in ProductIds |-> Product[p].stock_quantity]) :
                res' = Reply("inventory", u, 200,
                             [i \in 1 .. Len(order) |-> InventoryRow(order[i])])
      /\ queried' = TablesRead(supplierId, {"Product"})
      /\ UNCHANGED <<Plan, SupplierProfile, Product, ProductSales, nextSaleId, today, job, asyncVars>>

-----------------------------------------------------------------------------
(* PUT /product/:id.  body maps the fields the request sets to their values *)

EditableFields ==
  {"supplier_purchase_price", "supplier_sold_price", "stock_quantity", "category"}

EditProduct(u, id, body) ==
  LET supplierId == getSupplierProfileId(u)
  IN  /\ IF IsNull(supplierId)
         THEN /\ res' = Reply("editProduct", 0, 404, NULL)
              /\ UNCHANGED Product
         ELSE IF id \notin StoreProducts(Num(supplierId))
         THEN /\ res' = Reply("editProduct", 0, 404, NULL)
              /\ UNCHANGED Product
         ELSE /\ Product' = [Product EXCEPT ![id] =
                   [f \in DOMAIN @ |->
                      IF f \in DOMAIN body \cap EditableFields THEN body[f] ELSE @[f]]]
              /\ res' = Reply("editProduct", 0, 200, NULL)
      /\ queried' = TablesRead(supplierId, {"Product"})
      /\ UNCHANGED <<Plan, SupplierProfile, ProductSales, nextSaleId, today, job, asyncVars>>

-----------------------------------------------------------------------------
(* GET /top-products *)

(* SUM(ps.<col>) over the joined rows of product p (GROUP BY p.id) *)
GroupSum(p, col) ==
  LET rows == JoinRows(p, SaleIds)
  IN  SqlSum([r \in rows |-> PsCol(r, col)])

(* IFNULL(SUM(ps.quantity_sold), 0) AS total_quantity *)
TotalQuantity(store) ==
  [p \in StoreProducts(store) |-> Num(IfNull(GroupSum(p, "quantity_sold"), 0))]

(* IFNULL(SUM(ps.profit), 0) AS total_profit *)
TotalProfit(store) ==
  [p \in StoreProducts(store) |-> Num(IfNull(GroupSum(p, "profit"), 0))]

(* COALESCE(p.category, 'Uncategorized') *)
CategoryLabel(category) == IF IsNull(category) THEN "Uncategorized" ELSE Num(category)

(* IFNULL(SUM(ps.total_sale_amount), 0) ... GROUP BY p.category: one group *)
(* for every distinct value of the column, NULL being one of them          *)
CategorySales(store) ==
  LET groups == {Product[p].category : p \in StoreProducts(store)}
  IN  [g \in groups |->
         LET rows == UNION {JoinRows(p, SaleIds) :
                              p \in {q \in StoreProducts(store) : Product[q].category = g}}
         IN  Num(IfNull(SqlSum([r \in rows |-> PsCol(r, "total_sale_amount")]), 0))]

(* the rows of a ranking: the first TopLimit ids of an order with their key *)
RankingRows(order, key, name) ==
  [i \in DOMAIN Limit(order, TopLimit) |-> (name :> key[order[i]]) @@ [id |-> order[i]]]

TopProductsBody(quantity, profit, sales, byQuantity, byProfit, bySales) ==
  [bestSelling |-> RankingRows(byQuantity, quantity, "total_quantity"),
   mostProfitable |-> RankingRows(byProfit, profit, "total_profit"),
   categories |->
     [i \in DOMAIN bySales |->
        [category |-> CategoryLabel(bySales[i]), sales_value |-> sales[bySales[i]]]]]

(* the possible response bodies of GET /top-products of a store *)
TopProducts(store) ==
  LET quantity == TotalQuantity(store)
      profit == TotalProfit(store)
      sales == CategorySales(store)
  IN  {TopProductsBody(quantity, profit, sales, q, p, c) :
         q \in OrderByDesc(DOMAIN quantity, quantity),
         p \in OrderByDesc(DOMAIN profit, profit),
         c \in OrderByDesc(DOMAIN sales, sales)}

GetTopProducts(u) ==
  LET supplierId == getSupplierProfileId(u)
  IN  /\ IF IsNull(supplierId)
         THEN res' = Reply("topProducts", u, 404, NULL)
         ELSE \E body \in TopProducts(Num(supplierId)) :
                res' = Reply("topProducts", u, 200, body)
      /\ queried' = TablesRead(supplierId, {"Product", "ProductSales"})
      /\ UNCHANGED <<Plan, SupplierProfile, Product, ProductSales, nextSaleId, today, job, asyncVars>>

-----------------------------------------------------------------------------
(* GET /profit-insights *)

(* CASE WHEN supplier_sold_price IS NOT NULL AND supplier_sold_price > 0   *)
(* THEN ROUND((sold - purchase) / sold * 100, 2) ELSE 0 END                *)
AnalyzerMargin(p) ==
  LET sold == Product[p].supplier_sold_price
  IN  IF ~IsNull(sold) /\ Num(sold) > 0
      THEN SqlRoundPct(SqlSub(sold, Product[p].supplier_purchase_price), sold)
      ELSE Val(0)

(* ORDER BY margin_percent DESC: row p may come before row q.  NULL sorts *)
(* after every value in a descending order.                               *)
MarginNotBelow(p, q) ==
  \/ IsNull(AnalyzerMargin(q))
  \/ ~IsNull(AnalyzerMargin(p)) /\ Num(AnalyzerMargin(p)) >= Num(AnalyzerMargin(q))

(* ... ORDER BY margin_percent DESC LIMIT 1: the rows the server may return *)
HighestMargin(store) ==
  {p \in StoreProducts(store) : \A q \in StoreProducts(store) : MarginNotBelow(p, q)}

(* ... GROUP BY p.id HAVING IFNULL(SUM(ps.quantity_sold), 0) = 0 *)
NoSales(store) ==
  {p \in StoreProducts(store) : IfNull(GroupSum(p, "quantity_sold"), 0) = Val(0)}

(* highestMargin[0] || null *)
ProfitInsightsBody(store, first) ==
  [highestMargin |->
     IF first = 0 THEN NULL
     ELSE Val([id |-> first, margin_percent |-> AnalyzerMargin(first)]),
   noSales |-> {[id |-> p] : p \in NoSales(store)}]

GetProfitInsights(u) ==
  LET supplierId == getSupplierProfileId(u)
  IN  /\ IF IsNull(supplierId)
         THEN res' = Reply("profitInsights", u, 404, NULL)
         ELSE \E first \in (IF StoreProducts(Num(supplierId)) = {} THEN {0}
                            ELSE HighestMargin(Num(supplierId))) :
                res' = Reply("profitInsights", u, 200,
                             ProfitInsightsBody(Num(supplierId), first))
      /\ queried' = TablesRead(supplierId, {"Product", "ProductSales"})
      /\ UNCHANGED <<Plan, SupplierProfile, Product, ProductSales, nextSaleId, today, job, asyncVars>>

-----------------------------------------------------------------------------
(* GET /alerts.  The four queries have no ORDER BY: each list is held as  *)
(* the set of its rows.                                                    *)

(* ROUND((supplier_sold_price - supplier_purchase_price) / supplier_sold_price * 100, 2) *)
AlertMargin(p) ==
  SqlRoundPct(SqlSub(Product[p].supplier_sold_price, Product[p].supplier_purchase_price),
              Product[p].supplier_sold_price)

(* HAVING margin_percent >= 40: a NULL margin does not qualify *)
HighProfit(store) ==
  {p \in StoreProducts(store) :
      ~IsNull(AlertMargin(p)) /\ Num(AlertMargin(p)) >= HighMarginPercent * 100}

(* the low-stock rule without its lower bound *)
StockBelowThreshold(store) ==
  {p \in StoreProducts(store) : Product[p].stock_quantity < LowStockThreshold}

(* ... WHERE store_id = ? AND stock_quantity < 5 AND stock_quantity > 0 *)
LowStock(store) ==
  {p \in StoreProducts(store) :
      Product[p].stock_quantity < LowStockThreshold /\ Product[p].stock_quantity > 0}

(* ... WHERE store_id = ? AND stock_quantity = 0 *)
OutOfStock(store) == {p \in StoreProducts(store) : Product[p].stock_quantity = 0}

(* DATEDIFF(CURDATE(), created_at) *)
DaysUnsold(p) == today - Product[p].created_at

(* ... WHERE store_id = ? AND DATEDIFF(CURDATE(), created_at) > 30 *)
AgingInventory(store) == {p \in StoreProducts(store) : DaysUnsold(p) > AgingDays}

AlertsBody(low, out, aging, high) ==
  [low_stock |-> {[id |-> p, stock_quantity |-> Product[p].stock_quantity] : p \in low},
   out_of_stock |-> {[id |-> p] : p \in out},
   aging_inventory |-> {[id |-> p, days_unsold |-> DaysUnsold(p)] : p \in aging},
   high_profit |-> {[id |-> p, margin_percent |-> AlertMargin(p)] : p \in high}]

GetAlerts(u) ==
  LET supplierId == getSupplierProfileId(u)
      store == Num(supplierId)
  IN  /\ res' =
           IF IsNull(supplierId) THEN Reply("alerts", u, 404, NULL)
           ELSE Reply("alerts", u, 200,
                      AlertsBody(LowStock(store), OutOfStock(store),
                                 AgingInventory(store), HighProfit(store)))
      /\ queried' = TablesRead(supplierId, {"Product"})
      /\ UNCHANGED <<Plan, SupplierProfile, Product, ProductSales, nextSaleId, today, job, asyncVars>>

-----------------------------------------------------------------------------
(* GET /forecast *)

DefaultPeriod == 30

(* parseInt(req.query.period) || 30: query is NULL when the parameter is  *)
(* absent or not a number                                                *)
Period(query) == IF IsNull(query) \/ Num(query) = 0 THEN DefaultPeriod ELSE Num(query)

(* the digits a DECIMAL quotient keeps after the point: values of         *)
(* avg_daily_sold are held in ten-thousandths                             *)
DivScale == 10000

(* LEFT JOIN ProductSales ps ON p.id = ps.product_id                      *)
(*   AND ps.sale_date >= DATE_SUB(CURDATE(), INTERVAL ? DAY)              *)
ForecastRows(p, period) ==
  JoinRows(p, {s \in SaleIds : ProductSales[s].sale_date >= today - period})

(* IFNULL(SUM(ps.quantity_sold) / ?, 0) AS avg_daily_sold: the quotient   *)
(* of a DECIMAL sum by an integer, rounded to four decimals               *)
AvgDailySold(p, period) ==
  LET sum == SqlSum([r \in ForecastRows(p, period) |-> PsCol(r, "quantity_sold")])
  IN  IF IsNull(sum) THEN 0 ELSE RoundDiv(Num(sum) * DivScale, period)

(* Math.round(x) of x = n / DivScale: the nearest integer, halves upwards *)
MathRound(n) == (2 * n + DivScale) \div (2 * DivScale)

(* the recommendation without Math.max(0, ...) *)
ShortfallUnfloored(avg, period, stock) == MathRound(avg * period - stock * DivScale)

(* Math.max(0, Math.round(item.avg_daily_sold * period - item.stock_quantity)) *)
RecommendedQuantity(avg, period, stock) ==
  LET shortfall == MathRound(avg * period - stock * DivScale)
  IN  IF shortfall > 0 THEN shortfall ELSE 0

(* predicted_sales is in ten-thousandths *)
ForecastBody(store, period) ==
  [predicted_sales |->
     SumNonNull([p \in StoreProducts(store) |-> Val(AvgDailySold(p, period) * period)],
                StoreProducts(store)),
   recommended_stock |->
     {[product_id |-> p,
       recommended_quantity |->
         RecommendedQuantity(AvgDailySold(p, period), period, Product[p].stock_quantity)] :
        p \in StoreProducts(store)}]

GetForecast(u, query) ==
  LET supplierId == getSupplierProfileId(u)
  IN  /\ res' =
           IF IsNull(supplierId) THEN ReplyTo("forecast", u, query, 404, NULL)
           ELSE ReplyTo("forecast", u, query, 200,
                        ForecastBody(Num(supplierId), Period(query)))
      /\ queried' = TablesRead(supplierId, {"Product", "ProductSales"})
      /\ UNCHANGED <<Plan, SupplierProfile, Product, ProductSales, nextSaleId, today, job, asyncVars>>

-----------------------------------------------------------------------------
(* GET /sales-trend *)

(* FROM ProductSales ps JOIN Product p ON ps.product_id = p.id WHERE      *)
(* p.store_id = ? AND ps.sale_date >= DATE_SUB(CURDATE(), INTERVAL ? DAY) *)
TrendSales(store, period) ==
  {s \in SaleIds : /\ ProductSales[s].product_id \in StoreProducts(store)
                   /\ ProductSales[s].sale_date >= today - period}

(* SELECT DATE(ps.sale_date) AS date, SUM(...) ... GROUP BY DATE(ps.sale_date) *)
TrendRow(sales, date) ==
  LET day == {s \in sales : ProductSales[s].sale_date = date}
  IN  [date |-> date,
       total_sales |-> Num(SqlSum([s \in day |-> Val(ProductSales[s].total_sale_amount)])),
       total_profit |-> Num(SqlSum([s \in day |-> Val(ProductSales[s].profit)])),
       total_units_sold |-> Num(SqlSum([s \in day |-> Val(ProductSales[s].quantity_sold)]))]

(* ... ORDER BY date ASC: the dates of the groups differ, the order is one *)
SalesTrend(store, period) ==
  LET sales == TrendSales(store, period)
      dates == {ProductSales[s].sale_date : s \in sales}
      order == CHOOSE o \in OrderByAsc(dates, [d \in dates |-> d]) : TRUE
  IN  [i \in 1 .. Len(order) |-> TrendRow(sales, order[i])]

GetSalesTrend(u, query) ==
  LET supplierId == getSupplierProfileId(u)
  IN  /\ res' =
           IF IsNull(supplierId) THEN ReplyTo("salesTrend", u, query, 404, NULL)
           ELSE ReplyTo("salesTrend", u, query, 200,
                        SalesTrend(Num(supplierId), Period(query)))
      /\ queried' = TablesRead(supplierId, {"Product", "ProductSales"})
      /\ UNCHANGED <<Plan, SupplierProfile, Product, ProductSales, nextSaleId, today, job, asyncVars>>

-----------------------------------------------------------------------------
(* GET /dashboard/store: the activities feed.  The Review table and the   *)
(* columns updated_at and plan_end are not part of the state: job holds    *)
(* the rows the three queries of the feed return.                         *)

(* r => ({ message: r.message, date: r.date }) *)
ReviewActivity(r) == [message |-> r.message, date |-> r.date]

(* l => ({ message: `Product "${l.product_name}" is running low on stock`, date: l.date }) *)
LowStockActivity(l) ==
  [message |-> <<"Product", l.product_name, "is running low on stock">>, date |-> l.date]

(* p => ({ message: p.message, date: p.date }) *)
PlanActivity(p) == [message |-> p.message, date |-> p.date]

(* the comparator (a, b) => new Date(b.date) - new Date(a.date) leaves e  *)
(* behind every entry that is not older than it                           *)
RECURSIVE InsertByDate(_, _)
InsertByDate(sorted, e) ==
  IF sorted = <<>> THEN <<e>>
  ELSE IF Head(sorted).date >= e.date
       THEN <<Head(sorted)>> \o InsertByDate(Tail(sorted), e)
       ELSE <<e>> \o sorted

(* the feed left in the order of the concatenation *)
Unsorted(list) == list

(* Array.prototype.sort with that comparator: a stable descending sort *)
RECURSIVE SortByDateDesc(_)
SortByDateDesc(list) ==
  IF list = <<>> THEN <<>>
  ELSE InsertByDate(SortByDateDesc(SubSeq(list, 1, Len(list) - 1)), list[Len(list)])

Activities(recentReviews, lowStock, planExpiry) ==
  SortByDateDesc([i \in DOMAIN recentReviews |-> ReviewActivity(recentReviews[i])]
                   \o [i \in DOMAIN lowStock |-> LowStockActivity(lowStock[i])]
                   \o [i \in DOMAIN planExpiry |-> PlanActivity(planExpiry[i])])

(* the response is held by its activities alone *)
GetStore(u) ==
  LET supplier == getSupplierProfileId(u)
  IN  /\ job.op = "store"
      /\ res' =
           IF IsNull(supplier) THEN Reply("store", u, 404, NULL)
           ELSE Reply("store", u, 200,
                      [activities |->
                         Activities(job.recentReviews, job.lowStock, job.planExpiry)])
      /\ queried' = TablesRead(supplier, {"Plan", "Product", "ProductSales", "Review"})
      /\ UNCHANGED <<Plan, SupplierProfile, Product, ProductSales, nextSaleId, today, job, asyncVars>>

-----------------------------------------------------------------------------
(* GET /heatmap *)

(* DATE_FORMAT(ps.sale_date, '%W') as the position of the day in          *)
(* FIELD(day, 'Monday', ..., 'Sunday'); day 0 of the calendar is a Monday *)
Weekday(date) == (date % 7) + 1

(* SELECT DATE_FORMAT(ps.sale_date, '%W') AS day, SUM(ps.total_sale_amount) *)
(* ... GROUP BY day ORDER BY FIELD(day, 'Monday', ...)                     *)
DailySales(store, period) ==
  LET sales == TrendSales(store, period)
      days == {Weekday(ProductSales[s].sale_date) : s \in sales}
      order == CHOOSE o \in OrderByAsc(days, [d \in days |-> d]) : TRUE
  IN  [i \in 1 .. Len(order) |->
         LET of == {s \in sales : Weekday(ProductSales[s].sale_date) = order[i]}
         IN  [day |-> order[i],
              total_sales |-> Num(SqlSum([s \in of |-> Val(ProductSales[s].total_sale_amount)]))]]

(* SELECT HOUR(ps.sale_date) AS hour, ... GROUP BY hour ORDER BY hour: a  *)
(* sale_date is the CURDATE() of the sale, its hour is 0                   *)
HourlySales(store, period) ==
  LET sales == TrendSales(store, period)
  IN  IF sales = {} THEN <<>>
      ELSE <<[hour |-> 0,
              total_sales |-> Num(SqlSum([s \in sales |-> Val(ProductSales[s].total_sale_amount)]))]>>

GetHeatmap(u, query) ==
  LET supplierId == getSupplierProfileId(u)
      store == Num(supplierId)
  IN  /\ res' =
           IF IsNull(supplierId) THEN ReplyTo("heatmap", u, query, 404, NULL)
           ELSE ReplyTo("heatmap", u, query, 200,
                        [daily_sales |-> DailySales(store, Period(query)),
                         hourly_sales |-> HourlySales(store, Period(query))])
      /\ queried' = TablesRead(supplierId, {"Product", "ProductSales"})
      /\ UNCHANGED <<Plan, SupplierProfile, Product, ProductSales, nextSaleId, today, job, asyncVars>>

-----------------------------------------------------------------------------
(* GET /export.  start and end are NULL when the request leaves them out *)

(* FROM Product p LEFT JOIN ProductSales ps ON p.id = ps.product_id WHERE *)
(* p.store_id = ? AND ps.sale_date BETWEEN ? AND ?: the condition on ps   *)
(* in the WHERE clause drops the rows without a sale                      *)
ExportRows(store, start, end) ==
  {r \in LeftJoin(store, SaleIds) :
      /\ r[2] # 0
      /\ ~IsNull(start) /\ ~IsNull(end)
      /\ ProductSales[r[2]].sale_date >= Num(start)
      /\ ProductSales[r[2]].sale_date <= Num(end)}

ExportKpis(store, start, end) ==
  LET rows == ExportRows(store, start, end)
  IN  [total_investment |->
         IfNull(SqlSum([r \in rows |->
                  SqlMul(Product[r[1]].supplier_purchase_price, PsCol(r, "quantity_sold"))]), 0),
       total_sales_value |-> IfNull(SqlSum([r \in rows |-> PsCol(r, "total_sale_amount")]), 0),
       total_profit |-> IfNull(SqlSum([r \in rows |-> PsCol(r, "profit")]), 0)]

(* SELECT id, title, stock_quantity, supplier_purchase_price, supplier_sold_price *)
ExportProducts(store) ==
  {[id |-> p,
    stock_quantity |-> Product[p].stock_quantity,
    supplier_purchase_price |-> Product[p].supplier_purchase_price,
    supplier_sold_price |-> Product[p].supplier_sold_price] : p \in StoreProducts(store)}

GetExport(u, start, end, type) ==
  LET supplierId == getSupplierProfileId(u)
      store == Num(supplierId)
  IN  /\ res' =
           IF IsNull(supplierId) THEN Reply("export", u, 404, NULL)
           ELSE IF type = "json"
           THEN Reply("export", u, 200,
                      [kpis |-> ExportKpis(store, start, end),
                       products |-> ExportProducts(store)])
           ELSE Reply("export", u, 400, NULL)
      /\ queried' = TablesRead(supplierId, {"Product", "ProductSales"})
      /\ UNCHANGED <<Plan, SupplierProfile, Product, ProductSales, nextSaleId, today, job, asyncVars>>

-----------------------------------------------------------------------------
(* GET /alerts and GET /top-products served one query at a time.  The     *)
(* handler awaits each queryDB call: between two of its queries other     *)
(* requests are served, and each call returns rows or throws.  GetAlerts  *)
(* and GetTopProducts above are the runs in which nothing comes between.  *)

AlertLists == <<"low_stock", "out_of_stock", "aging_inventory", "high_profit">>

TopLists == <<"bestSelling", "mostProfitable", "categories">>

QueryLists(op) == IF op = "alerts" THEN AlertLists ELSE TopLists

Serving == job.op # "none" /\ ~job.done

(* the request reaches its handler *)
Arrive(op, u) ==
  /\ ~Serving
  /\ job' = [op |-> op, user |-> u, store |-> NULL, step |-> 0,
             done |-> FALSE, failed |-> FALSE, lists |-> <<>>]
  /\ res' = NoResponse
  /\ queried' = {}
  /\ UNCHANGED <<Plan, SupplierProfile, Product, ProductSales, nextSaleId, today, asyncVars>>

(* const supplierId = await getSupplierProfileId(userId); if (!supplierId) return 404 *)
ProfileStep ==
  /\ Serving
  /\ job.step = 0
  /\ LET supplierId == getSupplierProfileId(job.user)
     IN  IF IsNull(supplierId)
         THEN /\ res' = Reply(job.op, job.user, 404, NULL)
              /\ job' = [job EXCEPT !.done = TRUE]
         ELSE /\ res' = NoResponse
              /\ job' = [job EXCEPT !.store = supplierId, !.step = 1]
  /\ queried' = {"SupplierProfile"}
  /\ UNCHANGED <<Plan, SupplierProfile, Product, ProductSales, nextSaleId, today, asyncVars>>

(* the rows the queries of op may return in the current state, by list *)
QueryResults(op, store) ==
  IF op = "alerts"
  THEN {AlertsBody(LowStock(store), OutOfStock(store), AgingInventory(store),
                   HighProfit(store))}
  ELSE TopProducts(store)

(* res.json({ ... }): the lists under their names *)
ListsBody(op, lists) ==
  [name \in {QueryLists(op)[i] : i \in 1 .. Len(lists)} |->
     lists[CHOOSE i \in 1 .. Len(lists) : QueryLists(op)[i] = name]]

(* the next query of the handler returns its rows; after the last one the *)
(* response is sent                                                       *)
QueryStep ==
  /\ Serving
  /\ job.step >= 1
  /\ \E result \in QueryResults(job.op, Num(job.store)) :
       LET lists == Append(job.lists, result[QueryLists(job.op)[job.step]])
       IN  IF job.step = Len(QueryLists(job.op))
           THEN /\ res' = Reply(job.op, job.user, 200, ListsBody(job.op, lists))
                /\ job' = [job EXCEPT !.lists = lists, !.done = TRUE]
           ELSE /\ res' = NoResponse
                /\ job' = [job EXCEPT !.lists = lists, !.step = @ + 1]
  /\ queried' = queried \cup (IF job.op = "alerts" THEN {"Product"}
                               ELSE {"Product", "ProductSales"})
  /\ UNCHANGED <<Plan, SupplierProfile, Product, ProductSales, nextSaleId, today, asyncVars>>

(* a success response made of the lists read before the failure *)
PartialReply(j) == Reply(j.op, j.user, 200, ListsBody(j.op, j.lists))

(* catch (err) { res.status(500).json({ message: "Server error", ... }) } *)
FailureReply(j) == Reply(j.op, j.user, 500, NULL)

(* the next queryDB call of the handler throws *)
QueryFails ==
  /\ Serving
  /\ res' = FailureReply(job)
  /\ job' = [job EXCEPT !.done = TRUE, !.failed = TRUE]
  /\ UNCHANGED <<Plan, SupplierProfile, Product, ProductSales, nextSaleId, today, queried, asyncVars>>

-----------------------------------------------------------------------------
(* db.js: the pool and queryDB.  pool is 0 while the module variable is    *)
(* undefined or null and otherwise the number of the pool it holds, pools  *)
(* being numbered in the order of their creation.  lost is the set of      *)
(* pools whose connection to the server was lost.  A queryDB call is made  *)
(* by a handler or by the keep-alive timer.                                *)

Calls == 1 .. MaxCalls

LostCodes == {"PROTOCOL_CONNECTION_LOST", "ECONNRESET", "ETIMEDOUT"}

ErrorCodes == LostCodes \cup {"ER_PARSE_ERROR"}

NoCall == [pc |-> "idle", p |-> 0, attempts |-> 0, err |-> "none"]

(* getPool: the pool, created first when there is none *)
getPool == IF pool = 0 THEN poolsCreated + 1 ELSE pool

(* queryDB(sql, params) up to its await: const p = getPool(); p.query(...) *)
queryDB(c) ==
  /\ calls[c].pc = "idle"
  /\ pool' = getPool
  /\ poolsCreated' = IF pool = 0 THEN poolsCreated + 1 ELSE poolsCreated
  /\ calls' = [calls EXCEPT ![c] = [pc |-> "query", p |-> getPool, attempts |-> 1,
                                    err |-> "none"]]
  /\ UNCHANGED <<Plan, SupplierProfile, Product, ProductSales, nextSaleId, today, res,
                 queried, job, lost, reqs>>

(* the server or the network drops the connections of pool k *)
ConnectionLost(k) ==
  /\ k \in 1 .. poolsCreated
  /\ k \notin lost
  /\ lost' = lost \cup {k}
  /\ UNCHANGED <<Plan, SupplierProfile, Product, ProductSales, nextSaleId, today, res,
                 queried, job, pool, poolsCreated, calls, reqs>>

(* const [rows] = await p.query(sql, params); return rows *)
QueryReturns(c) ==
  /\ calls[c].pc = "query"
  /\ calls' = [calls EXCEPT ![c].pc = "returned"]
  /\ UNCHANGED <<Plan, SupplierProfile, Product, ProductSales, nextSaleId, today, res,
                 queried, job, pool, poolsCreated, lost, reqs>>

(* catch (err): on a lost connection pool = null and return queryDB(sql,   *)
(* params), which runs getPool and sends the query again before anything   *)
(* else runs; every other error is thrown to the caller                    *)
QueryThrows(c, code) ==
  /\ calls[c].pc = "query"
  /\ code \in LostCodes => calls[c].p \in lost
  /\ IF code \in LostCodes
     THEN /\ calls[c].attempts < MaxAttempts
          /\ pool' = poolsCreated + 1
          /\ poolsCreated' = poolsCreated + 1
          /\ calls' = [calls EXCEPT ![c] = [pc |-> "query", p |-> poolsCreated + 1,
                                            attempts |-> @.attempts + 1, err |-> code]]
     ELSE /\ calls' = [calls EXCEPT ![c].pc = "thrown", ![c].err = code]
          /\ UNCHANGED <<pool, poolsCreated>>
  /\ UNCHANGED <<Plan, SupplierProfile, Product, ProductSales, nextSaleId, today, res,
                 queried, job, lost, reqs>>

Requests == 1 .. MaxRequests

NoRequest == [pc |-> "idle"]

(* db.js after import: let pool; no call made; no request being served *)
AsyncInit ==
  /\ pool = 0
  /\ poolsCreated = 0
  /\ lost = {}
  /\ calls = [c \in Calls |-> NoCall]
  /\ reqs = [r \in Requests |-> NoRequest]

-----------------------------------------------------------------------------
(* Requests served statement by statement.  reqs[r] holds the position of  *)
(* request r in its handler and the handler's local values; the handler    *)
(* awaits every statement, so other requests run between two of them.      *)

Finish(r, status) == [reqs EXCEPT ![r].pc = "done", ![r].status = status]

(* POST /supplier/create: the body is read and the SELECT of the existing  *)
(* profile is answered                                                     *)
CreateSupplierCheck(r, user_id) ==
  /\ reqs[r].pc \in {"idle", "done"}
  /\ LET existing == getSupplierProfileId(user_id)
         req == [pc |-> "plan", op |-> "createSupplier", user_id |-> user_id, status |-> 0]
     IN  IF ~IsNull(existing)
         THEN /\ reqs' = [reqs EXCEPT ![r] = [req EXCEPT !.pc = "done", !.status = 409]]
              /\ res' = Reply("createSupplier", user_id, 409, NULL)
         ELSE /\ reqs' = [reqs EXCEPT ![r] = req]
              /\ res' = NoResponse
  /\ queried' = {"SupplierProfile"}
  /\ UNCHANGED <<Plan, SupplierProfile, Product, ProductSales, nextSaleId, today, job, dbVars>>

(* SELECT * FROM Plan WHERE plan_type = 'free' AND is_active = 1 LIMIT 1 *)
CreateSupplierPlan(r) ==
  /\ reqs[r].pc = "plan"
  /\ reqs[r].op = "createSupplier"
  /\ reqs' = [reqs EXCEPT ![r].pc = "insert"]
  /\ res' = NoResponse
  /\ queried' = {"SupplierProfile", "Plan"}
  /\ UNCHANGED <<Plan, SupplierProfile, Product, ProductSales, nextSaleId, today, job, dbVars>>

(* INSERT INTO SupplierProfile (user_id, ...) *)
CreateSupplierInsert(r) ==
  /\ reqs[r].pc = "insert"
  /\ reqs[r].op = "createSupplier"
  /\ SupplierProfile' = Append(SupplierProfile, [user_id |-> reqs[r].user_id])
  /\ reqs' = [reqs EXCEPT ![r].pc = "fetch"]
  /\ res' = NoResponse
  /\ queried' = {"SupplierProfile", "Plan"}
  /\ UNCHANGED <<Plan, Product, ProductSales, nextSaleId, today, job, dbVars>>

(* the role update, the SELECT of the created profile and res.status(201) *)
CreateSupplierRespond(r) ==
  /\ reqs[r].pc = "fetch"
  /\ reqs[r].op = "createSupplier"
  /\ reqs' = Finish(r, 201)
  /\ res' = Reply("createSupplier", reqs[r].user_id, 201, NULL)
  /\ queried' = {"SupplierProfile", "Plan", "User"}
  /\ UNCHANGED <<Plan, SupplierProfile, Product, ProductSales, nextSaleId, today, job, dbVars>>

-----------------------------------------------------------------------------
(* routes/sales.js POST /: a sale recorded in a transaction on a           *)
(* connection of its own.  Product and ProductSales hold the committed     *)
(* rows.  The SELECT is a plain read of the committed row; the INSERT is   *)
(* kept with the request until the commit; the UPDATE locks the product's  *)
(* row until the transaction ends and subtracts from the value the row has *)
(* then.                                                                   *)

(* the product whose row request r has locked, or 0 *)
LockOf(r) == IF reqs[r].pc = "commit" THEN reqs[r].product_id ELSE 0

(* beginTransaction, the SELECT of the product and the two checks *)
TxSaleSelect(r, product_id, quantity_sold, sold_price_per_unit) ==
  /\ reqs[r].pc \in {"idle", "done"}
  /\ LET req == [pc |-> "insert", op |-> "txSale", product_id |-> product_id,
                 quantity_sold |-> quantity_sold,
                 sold_price_per_unit |-> sold_price_per_unit,
                 profit |-> 0, error |-> <<>>, status |-> 0]
     IN  IF product_id \notin ProductIds
         THEN /\ reqs' = [reqs EXCEPT ![r] =
                            [req EXCEPT !.pc = "done", !.status = 500,
                                        !.error = <<"Product not found">>]]
              /\ res' = Reply("txSale", 0, 500, <<"Product not found">>)
         ELSE IF Product[product_id].stock_quantity < quantity_sold
         THEN /\ reqs' = [reqs EXCEPT ![r] =
                            [req EXCEPT !.pc = "done", !.status = 500,
                                        !.error = <<"Insufficient stock">>]]
              /\ res' = Reply("txSale", 0, 500, <<"Insufficient stock">>)
         ELSE /\ reqs' = [reqs EXCEPT ![r] =
                            [req EXCEPT !.profit =
                               (sold_price_per_unit
                                  - JsNumber(Product[product_id].supplier_purchase_price))
                               * quantity_sold]]
              /\ res' = NoResponse
  /\ queried' = {"Product"}
  /\ UNCHANGED <<Plan, SupplierProfile, Product, ProductSales, nextSaleId, today, job, dbVars>>

(* INSERT INTO ProductSales ... *)
TxSaleInsert(r) ==
  /\ reqs[r].pc = "insert"
  /\ reqs[r].op = "txSale"
  /\ reqs' = [reqs EXCEPT ![r].pc = "update"]
  /\ res' = NoResponse
  /\ queried' = {"Product", "ProductSales"}
  /\ UNCHANGED <<Plan, SupplierProfile, Product, ProductSales, nextSaleId, today, job, dbVars>>

(* UPDATE Product SET stock_quantity = stock_quantity - ? WHERE id = ?     *)
(* waits while another transaction holds the row                           *)
TxSaleUpdate(r) ==
  /\ reqs[r].pc = "update"
  /\ reqs[r].op = "txSale"
  /\ \A o \in Requests \ {r} : LockOf(o) # reqs[r].product_id
  /\ reqs' = [reqs EXCEPT ![r].pc = "commit"]
  /\ res' = NoResponse
  /\ queried' = {"Product", "ProductSales"}
  /\ UNCHANGED <<Plan, SupplierProfile, Product, ProductSales, nextSaleId, today, job, dbVars>>

(* conn.commit(); res.json({ message, profit }) *)
TxSaleCommit(r) ==
  /\ reqs[r].pc = "commit"
  /\ reqs[r].op = "txSale"
  /\ ProductSales' = ProductSales @@ (nextSaleId :>
        [product_id |-> reqs[r].product_id,
         quantity_sold |-> reqs[r].quantity_sold,
         sold_price_per_unit |-> reqs[r].sold_price_per_unit,
         total_sale_amount |-> reqs[r].sold_price_per_unit * reqs[r].quantity_sold,
         profit |-> reqs[r].profit,
         sale_date |-> today])
  /\ nextSaleId' = nextSaleId + 1
  /\ Product' = [Product EXCEPT ![reqs[r].product_id].stock_quantity =
                   @ - reqs[r].quantity_sold]
  /\ reqs' = Finish(r, 200)
  /\ res' = Reply("txSale", 0, 200, NULL)
  /\ queried' = {"Product", "ProductSales"}
  /\ UNCHANGED <<Plan, SupplierProfile, today, job, dbVars>>

(* a statement or the commit throws: catch (err) { conn.rollback(); 500 } *)
TxSaleRollback(r) ==
  /\ reqs[r].pc \in {"insert", "update", "commit"}
  /\ reqs[r].op = "txSale"
  /\ reqs' = [reqs EXCEPT ![r].pc = "done", ![r].status = 500,
                          ![r].error = <<"query failed">>]
  /\ res' = Reply("txSale", 0, 500, <<"query failed">>)
  /\ UNCHANGED <<Plan, SupplierProfile, Product, ProductSales, nextSaleId, today, job,
                 queried, dbVars>>

-----------------------------------------------------------------------------
(* POST /api/sales/add served statement by statement: each queryDB call    *)
(* runs on a connection of the pool, outside any transaction, and returns  *)
(* or throws.  AddSale above is the run in which every statement succeeds  *)
(* and nothing comes between.  sale is the id of the row the request has   *)
(* inserted (0: none), decremented tells whether its UPDATE has run.       *)

(* the body's checks, the profile lookup and the ownership lookup *)
SaleAddLookup(r, u, product_id, finalQuantity, finalSalePrice) ==
  /\ reqs[r].pc \in {"idle", "done"}
  /\ LET supplierId == getSupplierProfileId(u)
         req == [pc |-> "insert", op |-> "addSale", user |-> u, product_id |-> product_id,
                 quantity_sold |-> finalQuantity, sold_price_per_unit |-> finalSalePrice,
                 purchase |-> NULL, sale |-> 0, decremented |-> FALSE, status |-> 0]
         status == IF product_id = 0 \/ finalQuantity = 0 \/ finalSalePrice = 0 THEN 400
                   ELSE IF IsNull(supplierId) THEN 404
                   ELSE IF product_id \notin StoreProducts(Num(supplierId)) THEN 403
                   ELSE 0
     IN  IF status # 0
         THEN /\ reqs' = [reqs EXCEPT ![r] = [req EXCEPT !.pc = "done", !.status = status]]
              /\ res' = Reply("addSale", 0, status, NULL)
         ELSE /\ reqs' = [reqs EXCEPT ![r] =
                            [req EXCEPT !.purchase = Product[product_id].supplier_purchase_price]]
              /\ res' = NoResponse
  /\ queried' = {"SupplierProfile", "Product"}
  /\ UNCHANGED <<Plan, SupplierProfile, Product, ProductSales, nextSaleId, today, job, dbVars>>

(* INSERT INTO ProductSales ...; a NaN profit (no purchase price) is       *)
(* rejected by the server                                                  *)
SaleAddInsert(r) ==
  /\ reqs[r].pc = "insert"
  /\ reqs[r].op = "addSale"
  /\ ~IsNull(reqs[r].purchase)
  /\ ProductSales' = ProductSales @@ (nextSaleId :>
        [product_id |-> reqs[r].product_id,
         quantity_sold |-> reqs[r].quantity_sold,
         sold_price_per_unit |-> reqs[r].sold_price_per_unit,
         total_sale_amount |-> reqs[r].sold_price_per_unit * reqs[r].quantity_sold,
         profit |-> (reqs[r].sold_price_per_unit - Num(reqs[r].purchase))
                      * reqs[r].quantity_sold,
         sale_date |-> today])
  /\ nextSaleId' = nextSaleId + 1
  /\ reqs' = [reqs EXCEPT ![r].pc = "update", ![r].sale = nextSaleId]
  /\ res' = NoResponse
  /\ queried' = {"SupplierProfile", "Product", "ProductSales"}
  /\ UNCHANGED <<Plan, SupplierProfile, Product, today, job, dbVars>>

(* UPDATE Product SET stock_quantity = stock_quantity - ?; res.json(...) *)
SaleAddUpdate(r) ==
  /\ reqs[r].pc = "update"
  /\ reqs[r].op = "addSale"
  /\ Product' = [Product EXCEPT ![reqs[r].product_id].stock_quantity =
                   @ - reqs[r].quantity_sold]
  /\ reqs' = [reqs EXCEPT ![r].pc = "done", ![r].decremented = TRUE, ![r].status = 200]
  /\ res' = Reply("addSale", 0, 200, NULL)
  /\ queried' = {"SupplierProfile", "Product", "ProductSales"}
  /\ UNCHANGED <<Plan, SupplierProfile, ProductSales, nextSaleId, today, job, dbVars>>

(* the queryDB call of the next statement throws: catch (error) { 500 } *)
SaleAddFails(r) ==
  /\ reqs[r].pc \in {"insert", "update"}
  /\ reqs[r].op = "addSale"
  /\ reqs' = Finish(r, 500)
  /\ res' = Reply("addSale", 0, 500, NULL)
  /\ UNCHANGED <<Plan, SupplierProfile, Product, ProductSales, nextSaleId, today, job,
                 queried, dbVars>>

-----------------------------------------------------------------------------
(* POST /product/add served statement by statement.  AddProduct above is   *)
(* the run in which nothing comes between the count and the INSERT.        *)

(* the profile, the plan, the count of the store's products and the check  *)
(* of the count against the plan's upload_limit                            *)
ProductAddCount(r, u) ==
  /\ reqs[r].pc \in {"idle", "done"}
  /\ LET supplierId == getSupplierProfileId(u)
         req == [pc |-> "insert", op |-> "addProduct", user |-> u, storeId |-> supplierId,
                 status |-> 0]
         status == IF IsNull(supplierId) THEN 400
                   ELSE IF /\ Plan.upload_limit >= 0
                           /\ Cardinality(StoreProducts(Num(supplierId))) >= Plan.upload_limit
                   THEN 403
                   ELSE 0
     IN  IF status # 0
         THEN /\ reqs' = [reqs EXCEPT ![r] = [req EXCEPT !.pc = "done", !.status = status]]
              /\ res' = Reply("addProduct", 0, status, NULL)
         ELSE /\ reqs' = [reqs EXCEPT ![r] = req]
              /\ res' = NoResponse
  /\ queried' = TablesRead(getSupplierProfileId(u), {"Plan", "Product"})
  /\ UNCHANGED <<Plan, SupplierProfile, Product, ProductSales, nextSaleId, today, job, dbVars>>

(* the image uploads, INSERT INTO Product ... and the response *)
ProductAddInsert(r, purchase, sold, stock, category) ==
  /\ reqs[r].pc = "insert"
  /\ reqs[r].op = "addProduct"
  /\ Product' = Append(Product,
        [store_id |-> Num(reqs[r].storeId),
         supplier_purchase_price |-> purchase,
         supplier_sold_price |-> sold,
         stock_quantity |-> stock,
         category |-> IF category = Val("") THEN NULL ELSE category,
         created_at |-> today])
  /\ reqs' = Finish(r, 200)
  /\ res' = Reply("addProduct", 0, 200, NULL)
  /\ queried' = {"SupplierProfile", "Plan", "Product"}
  /\ UNCHANGED <<Plan, SupplierProfile, ProductSales, nextSaleId, today, job, dbVars>>

-----------------------------------------------------------------------------
(* The calendar: CURDATE() moves on between requests *)

DaySteps == {KpiWindowDays, KpiWindowDays + 1}

Tick(d) ==
  /\ today + d <= MaxDay
  /\ today' = today + d
  /\ res' = NoResponse
  /\ queried' = {}
  /\ UNCHANGED <<Plan, SupplierProfile, Product, ProductSales, nextSaleId, job, asyncVars>>

-----------------------------------------------------------------------------

(* The database after set-up: one active plan, a supplier profile for     *)
(* users 1 and 2 (user 3 has none), no products, no sales.                *)
Init ==
  /\ Plan = [upload_limit |-> 2]
  /\ SupplierProfile = <<[user_id |-> 1], [user_id |-> 2]>>
  /\ Product = <<>>
  /\ ProductSales = <<>>
  /\ nextSaleId = 1
  /\ today = 0
  /\ res = NoResponse
  /\ queried = {}
  /\ job = Idle
  /\ AsyncInit

Next ==
  \/ \E u \in Users :
        Len(Product) < MaxProducts /\ AddProduct(u, Val(2), Val(3), 3, NULL)
  \/ \E u \in Users, p \in ProductIds, q \in {1, 2} :
        nextSaleId <= MaxSales /\ AddSale(u, p, q, 3)
  \/ \E d \in DaySteps : Tick(d)
  \/ \E u \in Users : GetKpis(u)
  \/ \E u \in Users : GetInventory(u)

Spec == Init /\ [][Next]_vars

-----------------------------------------------------------------------------
(* What the claims speak of *)

RECURSIVE Sum(_, _)
Sum(f, S) ==
  IF S = {} THEN 0
  ELSE LET x == CHOOSE y \in S : TRUE IN f[x] + Sum(f, S \ {x})

TenantOf(u) == Num(getSupplierProfileId(u))

Answered(op) == res.op = op /\ res.status = 200

SaleInWindow(s) ==
  /\ ProductSales[s].sale_date >= today - KpiWindowDays
  /\ ProductSales[s].sale_date <= today

TenantSales(store) == {s \in SaleIds : Product[ProductSales[s].product_id].store_id = store}

WindowSales(store) == {s \in TenantSales(store) : SaleInWindow(s)}

PurchasePrice(p) == Num(Product[p].supplier_purchase_price)

\* C1: stock_value of GET /kpis is the sum of purchase price x current stock
\* over the tenant's products, each product counted once whatever its sales.
C1_StockValueCountsEachProductOnce ==
  Answered("kpis") =>
    LET mine == StoreProducts(TenantOf(res.user))
    IN  res.body.stock_value =
          Val(Sum([p \in mine |-> PurchasePrice(p) * Product[p].stock_quantity], mine))

\* C2: out_of_stock_percentage of GET /kpis is round(products with stock 0 /
\* products x 100, 2), each product counted once, and 0 without products.
C2_OutOfStockShareOfProducts ==
  Answered("kpis") =>
    LET mine == StoreProducts(TenantOf(res.user))
        out == {p \in mine : Product[p].stock_quantity = 0}
    IN  res.body.out_of_stock_percentage =
          IF mine = {} THEN Val(0)
          ELSE Val(RoundDiv(Cardinality(out) * 10000, Cardinality(mine)))

KpiFields ==
  {"total_investment", "total_sales_value", "total_profit", "profit_margin",
   "stock_value", "out_of_stock_percentage"}

\* C4: GET /kpis of a caller with a profile never fails and never returns a
\* null field; without a sale event in the window total_profit,
\* total_sales_value and profit_margin are 0; without products every field
\* is 0.
C4_DegenerateKpisAreZero ==
  (res.op = "kpis" /\ ~IsNull(getSupplierProfileId(res.user))) =>
    /\ res.status = 200
    /\ \A f \in KpiFields : ~IsNull(res.body[f])
    /\ WindowSales(TenantOf(res.user)) = {} =>
         /\ res.body.total_profit = Val(0)
         /\ res.body.total_sales_value = Val(0)
         /\ res.body.profit_margin = Val(0)
    /\ StoreProducts(TenantOf(res.user)) = {} =>
         \A f \in KpiFields : res.body[f] = Val(0)

C4_Witness ==
  /\ Answered("kpis")
  /\ StoreProducts(TenantOf(res.user)) # {}
  /\ TenantSales(TenantOf(res.user)) # {}
  /\ WindowSales(TenantOf(res.user)) = {}

SpecStockStatus(q) ==
  IF q = 0 THEN "Out of Stock"
  ELSE IF 0 < q /\ q < 5 THEN "Low Stock"
  ELSE "In Stock"

\* C5: GET /inventory labels a product "Out of Stock" exactly when its
\* stock_quantity is 0, "Low Stock" exactly when 0 < stock_quantity < 5 and
\* "In Stock" otherwise.
C5_StockStatusByQuantity ==
  Answered("inventory") =>
    \A i \in 1 .. Len(res.body) :
      res.body[i].stock_status = SpecStockStatus(res.body[i].stock_quantity)

\* C6: after any sequence of sales recorded through POST /api/sales/add every
\* product's stock_quantity is at least 0.
C6_StockNeverNegative ==
  \A p \in ProductIds : Product[p].stock_quantity >= 0

-----------------------------------------------------------------------------
(* The ranking specification: a store whose catalog is larger than the    *)
(* top-5 cut, with sales above and below the purchase price on record.    *)

RankCatalog ==
  [p \in 1 .. 6 |->
     [store_id |-> 1,
      supplier_purchase_price |-> Val(2),
      supplier_sold_price |-> Val(3),
      stock_quantity |-> 9,
      category |-> IF p <= 2 THEN NULL ELSE IF p <= 5 THEN Val("a") ELSE Val("b"),
      created_at |-> 0]]

(* product p + 1 has sold p units: products 2 and 3 below the purchase price *)
RankSales ==
  [s \in 1 .. 5 |->
     LET price == IF s <= 2 THEN 1 ELSE 3
     IN  [product_id |-> s + 1,
          quantity_sold |-> s,
          sold_price_per_unit |-> price,
          total_sale_amount |-> price * s,
          profit |-> (price - 2) * s,
          sale_date |-> 0]]

InitRank ==
  /\ Plan = [upload_limit |-> Len(RankCatalog)]
  /\ SupplierProfile = <<[user_id |-> 1], [user_id |-> 2]>>
  /\ Product = RankCatalog
  /\ ProductSales = RankSales
  /\ nextSaleId = Len(RankSales) + 1
  /\ today = 0
  /\ res = NoResponse
  /\ queried = {}
  /\ job = Idle
  /\ AsyncInit

NextRank ==
  \/ \E u \in Users, p \in {1, 2, 3}, pr \in {1, 3} :
        nextSaleId <= Len(RankSales) + MaxSales /\ AddSale(u, p, 1, pr)
  \/ \E u \in Users, p \in {1, 2}, c \in {NULL, Val("")} :
        EditProduct(u, p, [category |-> c])
  \/ \E u \in Users : GetTopProducts(u)

SpecRank == InitRank /\ [][NextRank]_vars

ProductSalesOf(p) == {s \in SaleIds : ProductSales[s].product_id = p}

AggQuantity(p) ==
  Sum([s \in ProductSalesOf(p) |-> ProductSales[s].quantity_sold], ProductSalesOf(p))

AggProfit(p) ==
  Sum([s \in ProductSalesOf(p) |-> ProductSales[s].profit], ProductSalesOf(p))

(* a comes before b when ranking by key descending, then by id ascending *)
RanksBefore(a, b, Key(_)) == Key(a) > Key(b) \/ (Key(a) = Key(b) /\ a < b)

(* list is the first min(5, n) of the tenant's products in that order *)
IsTopFive(list, mine, Key(_)) ==
  LET ids == {list[i].id : i \in 1 .. Len(list)}
  IN  /\ Len(list) <= 5
      /\ Len(list) = (IF Cardinality(mine) < 5 THEN Cardinality(mine) ELSE 5)
      /\ ids \subseteq mine
      /\ \A i, j \in 1 .. Len(list) : i < j => RanksBefore(list[i].id, list[j].id, Key)
      /\ \A a \in ids, b \in mine \ ids : RanksBefore(a, b, Key)

\* C7: bestSelling and mostProfitable hold at most 5 entries, ordered by
\* their key descending with equal keys in ascending product id, the smaller
\* id being the one kept when the cut at 5 falls inside a tie.
C7_TopFiveTiesByProductId ==
  Answered("topProducts") =>
    LET mine == StoreProducts(TenantOf(res.user))
    IN  /\ IsTopFive(res.body.bestSelling, mine, AggQuantity)
        /\ IsTopFive(res.body.mostProfitable, mine, AggProfit)

ZeroBefore(list, Key(_), Later(_)) ==
  \E i, j \in 1 .. Len(list) : i < j /\ Key(list[i].id) = 0 /\ Later(Key(list[j].id))

\* C8 as stated: in both ranking lists a product whose aggregate is 0 is
\* never placed before a product whose aggregate is non-zero.
C8_ZeroAggregatesLast ==
  Answered("topProducts") =>
    /\ ~ZeroBefore(res.body.bestSelling, AggQuantity, LAMBDA k : k # 0)
    /\ ~ZeroBefore(res.body.mostProfitable, AggProfit, LAMBDA k : k # 0)

\* C8 as amended: in both ranking lists a product whose aggregate is 0 is
\* never placed before a product whose aggregate is positive; products with
\* a negative cumulative profit come after the zero-aggregate ones.
C8_ZeroAggregatesAfterPositive ==
  Answered("topProducts") =>
    /\ ~ZeroBefore(res.body.bestSelling, AggQuantity, LAMBDA k : k > 0)
    /\ ~ZeroBefore(res.body.mostProfitable, AggProfit, LAMBDA k : k > 0)
    /\ \A i, j \in 1 .. Len(res.body.mostProfitable) :
         (/\ AggProfit(res.body.mostProfitable[i].id) < 0
          /\ AggProfit(res.body.mostProfitable[j].id) = 0) => j < i

C8_Witness ==
  /\ Answered("topProducts")
  /\ LET list == res.body.mostProfitable
     IN  \E i, j, k \in 1 .. Len(list) :
           /\ AggProfit(list[i].id) > 0
           /\ AggProfit(list[j].id) = 0
           /\ ProductSalesOf(list[j].id) # {}
           /\ AggProfit(list[k].id) < 0

SpecCategoryLabel(p) ==
  IF Product[p].category \in {NULL, Val("")} THEN "Uncategorized"
  ELSE Num(Product[p].category)

\* C9: the categories list reports the products whose category is null or
\* the empty string under the single label "Uncategorized", each label once
\* with sales_value the sum of total_sale_amount of its products, ordered by
\* sales_value descending.
C9_EmptyCategoryIsUncategorized ==
  Answered("topProducts") =>
    LET mine == StoreProducts(TenantOf(res.user))
        list == res.body.categories
        labels == {SpecCategoryLabel(p) : p \in mine}
        salesOf(l) == {s \in SaleIds : /\ ProductSales[s].product_id \in mine
                                       /\ SpecCategoryLabel(ProductSales[s].product_id) = l}
    IN  /\ Len(list) = Cardinality(labels)
        /\ {list[i].category : i \in 1 .. Len(list)} = labels
        /\ \A i \in 1 .. Len(list) :
             list[i].sales_value =
               Sum([s \in salesOf(list[i].category) |-> ProductSales[s].total_sale_amount],
                   salesOf(list[i].category))
        /\ \A i \in 1 .. Len(list) - 1 : list[i].sales_value >= list[i + 1].sales_value

-----------------------------------------------------------------------------
(* The alerts specification: products are listed with and without a       *)
(* purchase price, and their sold price is edited to nothing, to zero and  *)
(* below zero.                                                             *)

NextAlerts ==
  \/ \E u \in Users, purchase \in {NULL, Val(3), Val(4)} :
        Len(Product) < MaxProducts /\ AddProduct(u, purchase, Val(5), 3, NULL)
  \/ \E u \in Users, p \in ProductIds, sold \in {NULL, Val(-1), Val(0)} :
        EditProduct(u, p, [supplier_sold_price |-> sold])
  \/ \E u \in Users : GetAlerts(u)
  \/ \E u \in Users : GetProfitInsights(u)

SpecAlerts == Init /\ [][NextAlerts]_vars

\* C10: high_profit of GET /alerts holds exactly the tenant's products with
\* a sold price above 0 and an analyzer margin_percent of at least 40, each
\* with that margin; a product whose sold price is null, 0 or negative is
\* never in it.
C10_HighProfitNeedsPositiveSoldPrice ==
  Answered("alerts") =>
    LET mine == StoreProducts(TenantOf(res.user))
        qualifies(p) ==
          /\ ~IsNull(Product[p].supplier_sold_price)
          /\ Num(Product[p].supplier_sold_price) > 0
          /\ ~IsNull(AnalyzerMargin(p))
          /\ Num(AnalyzerMargin(p)) >= 4000
    IN  res.body.high_profit =
          {[id |-> p, margin_percent |-> AnalyzerMargin(p)] : p \in {q \in mine : qualifies(q)}}

SoldPrice(p) == Product[p].supplier_sold_price

(* m is the margin_percent the specification gives product p *)
MarginAsSpecified(p, m) ==
  /\ ~IsNull(m)
  /\ (IsNull(SoldPrice(p)) \/ Num(SoldPrice(p)) <= 0) => m = Val(0)
  /\ (/\ ~IsNull(SoldPrice(p))
      /\ Num(SoldPrice(p)) > 0
      /\ ~IsNull(Product[p].supplier_purchase_price)) =>
        m = Val(RoundDiv((Num(SoldPrice(p)) - PurchasePrice(p)) * 10000, Num(SoldPrice(p))))

\* C11: every margin_percent the analytics report (highestMargin of GET
\* /profit-insights, the high_profit rows of GET /alerts) is never null, is
\* round((sold - purchase) / sold x 100, 2) when the sold price is above 0
\* and is 0 when the sold price is 0, negative or null.
C11_MarginPercentFormula ==
  /\ (Answered("profitInsights") /\ ~IsNull(res.body.highestMargin)) =>
        MarginAsSpecified(Num(res.body.highestMargin).id,
                          Num(res.body.highestMargin).margin_percent)
  /\ Answered("alerts") =>
        \A row \in res.body.high_profit : MarginAsSpecified(row.id, row.margin_percent)

\* C12: highestMargin of GET /profit-insights is null when the tenant has no
\* products and otherwise the product with the maximal margin_percent, the
\* lowest id among those that share it.
C12_HighestMarginLowestId ==
  Answered("profitInsights") =>
    LET mine == StoreProducts(TenantOf(res.user))
        best == {p \in mine : \A q \in mine : MarginNotBelow(p, q)}
    IN  IF mine = {} THEN IsNull(res.body.highestMargin)
        ELSE /\ ~IsNull(res.body.highestMargin)
             /\ Num(res.body.highestMargin).id \in best
             /\ \A q \in best : Num(res.body.highestMargin).id <= q

-----------------------------------------------------------------------------
(* The stock specification: products are listed on the first day with and *)
(* without stock, sales bring the stock down while the calendar advances, *)
(* and the forecast is asked over a short, the default and a very long    *)
(* horizon.                                                               *)

NextStock ==
  \/ \E u \in Users, stock \in {0, 3} :
        /\ today = 0
        /\ Len(Product) < MaxProducts
        /\ AddProduct(u, Val(2), Val(3), stock, NULL)
  \/ \E u \in Users, p \in ProductIds :
        nextSaleId <= MaxSales /\ AddSale(u, p, 1, 3)
  \/ \E d \in DaySteps : Tick(d)
  \/ \E u \in Users, h \in {NULL, Val(3), Val(20000)} : GetForecast(u, h)
  \/ \E u \in Users : GetAlerts(u)

SpecStock == Init /\ [][NextStock]_vars

(* the sales of product p dated in the h days up to today *)
SoldInTrailing(p, h) ==
  LET S == {s \in ProductSalesOf(p) : ProductSales[s].sale_date >= today - h}
  IN  Sum([s \in S |-> ProductSales[s].quantity_sold], S)

\* C13: for a horizon h >= 1 GET /forecast recommends for every product of
\* the tenant max(0, round(avg_daily_sold x h - stock_quantity)) where
\* avg_daily_sold is the quantity sold in the trailing h days divided by h;
\* avg_daily_sold x h being that quantity, the recommendation is
\* max(0, quantity sold - stock_quantity).
C13_RecommendedIsShortfall ==
  (Answered("forecast") /\ ~IsNull(res.query) /\ Num(res.query) >= 1) =>
    res.body.recommended_stock =
      {[product_id |-> p,
        recommended_quantity |->
          LET shortfall == SoldInTrailing(p, Num(res.query)) - Product[p].stock_quantity
          IN  IF shortfall > 0 THEN shortfall ELSE 0] :
         p \in StoreProducts(TenantOf(res.user))}

\* C14: every recommended_quantity of GET /forecast is at least 0.
C14_RecommendedNeverNegative ==
  Answered("forecast") =>
    \A row \in res.body.recommended_stock : row.recommended_quantity >= 0

C14_Witness ==
  /\ Answered("forecast")
  /\ \E row \in res.body.recommended_stock :
        /\ row.recommended_quantity = 0
        /\ SoldInTrailing(row.product_id, Period(res.query)) > 0
        /\ Product[row.product_id].stock_quantity
             > SoldInTrailing(row.product_id, Period(res.query))
  /\ \E row \in res.body.recommended_stock :
        row.recommended_quantity > 0 /\ Product[row.product_id].stock_quantity < 0

\* C15: low_stock of GET /alerts holds exactly the tenant's products with
\* 0 < stock_quantity < 5, out_of_stock those with stock_quantity = 0 and
\* aging_inventory those older than 30 days; a product that meets several
\* rules is in each of their lists.
C15_AlertListsByRule ==
  Answered("alerts") =>
    LET mine == StoreProducts(TenantOf(res.user))
        ids(list) == {row.id : row \in list}
    IN  /\ ids(res.body.low_stock) =
             {p \in mine : 0 < Product[p].stock_quantity /\ Product[p].stock_quantity < 5}
        /\ ids(res.body.out_of_stock) = {p \in mine : Product[p].stock_quantity = 0}
        /\ ids(res.body.aging_inventory) = {p \in mine : today - Product[p].created_at > 30}

C15_Witness ==
  /\ Answered("alerts")
  /\ \E a \in res.body.low_stock, b \in res.body.aging_inventory : a.id = b.id
  /\ \E a \in res.body.out_of_stock, b \in res.body.aging_inventory : a.id = b.id

-----------------------------------------------------------------------------
(* The trend specification: sales are recorded on several days and the    *)
(* trend is asked without a period, for today only and for one day back.  *)

NextTrend ==
  \/ \E u \in Users :
        today = 0 /\ Len(Product) < MaxProducts /\ AddProduct(u, Val(2), Val(3), 3, NULL)
  \/ \E u \in Users, p \in ProductIds, pr \in {1, 3} :
        nextSaleId <= MaxSales /\ AddSale(u, p, 1, pr)
  \/ \E d \in DaySteps : Tick(d)
  \/ \E u \in Users, p \in {NULL, Val(0), Val(1)} : GetSalesTrend(u, p)

SpecTrend == Init /\ [][NextTrend]_vars

(* the request's lookback period, 30 days when it names none *)
Lookback == IF IsNull(res.query) THEN 30 ELSE Num(res.query)

\* C16: GET /sales-trend with lookback period p returns one entry for every
\* day of [today - p, today] on which the tenant has a sale and no other
\* entry; an entry holds the sums of total_sale_amount, profit and
\* quantity_sold over that day's sales; the entries are in ascending date
\* order.
C16_OneEntryPerSaleDay ==
  Answered("salesTrend") =>
    LET mine == TenantSales(TenantOf(res.user))
        on(d) == {s \in mine : ProductSales[s].sale_date = d}
        days == {d \in today - Lookback .. today : on(d) # {}}
        list == res.body
    IN  /\ Len(list) = Cardinality(days)
        /\ {list[i].date : i \in 1 .. Len(list)} = days
        /\ \A i \in 1 .. Len(list) :
             LET S == on(list[i].date)
             IN  /\ list[i].total_sales = Sum([s \in S |-> ProductSales[s].total_sale_amount], S)
                 /\ list[i].total_profit = Sum([s \in S |-> ProductSales[s].profit], S)
                 /\ list[i].total_units_sold = Sum([s \in S |-> ProductSales[s].quantity_sold], S)
        /\ \A i \in 1 .. Len(list) - 1 : list[i].date < list[i + 1].date

-----------------------------------------------------------------------------
(* The dashboard specification: the three queries of the feed return any  *)
(* rows in the order of their ORDER BY ... DESC, and the feed is built     *)
(* from them.                                                             *)

Dates == 1 .. MaxDate

(* the results of a query of up to MaxRows rows ordered by date descending *)
RowsByDateDesc(Rows) ==
  UNION {{r \in [1 .. n -> Rows] : \A i \in 1 .. n - 1 : r[i].date >= r[i + 1].date} :
           n \in 0 .. MaxRows}

ReviewRows == [message : {<<"New review on", "a">>}, date : Dates]

LowStockRows == [product_name : {"a"}, date : Dates]

PlanRows == [message : {<<"Your subscription plan is expiring soon">>}, date : Dates]

InitDash ==
  /\ Plan = [upload_limit |-> 2]
  /\ SupplierProfile = <<[user_id |-> 1], [user_id |-> 2]>>
  /\ Product = <<>>
  /\ ProductSales = <<>>
  /\ nextSaleId = 1
  /\ today = 0
  /\ res = NoResponse
  /\ queried = {}
  /\ job \in {[op |-> "store", recentReviews |-> r, lowStock |-> l, planExpiry |-> p] :
                r \in RowsByDateDesc(ReviewRows),
                l \in RowsByDateDesc(LowStockRows),
                p \in {<<>>} \cup {<<x>> : x \in PlanRows}}
  /\ AsyncInit

NextDash == \E u \in Users : GetStore(u)

SpecDash == InitDash /\ [][NextDash]_vars

Count(list, e) == Cardinality({i \in DOMAIN list : list[i] = e})

(* the entries the three lists map to, in the order of the lists *)
MappedEntries ==
  [i \in DOMAIN job.recentReviews |->
     [message |-> job.recentReviews[i].message, date |-> job.recentReviews[i].date]]
  \o [i \in DOMAIN job.lowStock |->
        [message |-> <<"Product", job.lowStock[i].product_name, "is running low on stock">>,
         date |-> job.lowStock[i].date]]
  \o [i \in DOMAIN job.planExpiry |->
        [message |-> job.planExpiry[i].message, date |-> job.planExpiry[i].date]]

\* C17: the activities of GET /dashboard/store are sorted non-increasing by
\* date and hold exactly the mapped entries of the three source lists, each
\* as many times as the lists hold it.
C17_ActivitiesSortedAndComplete ==
  Answered("store") =>
    LET list == res.body.activities
    IN  /\ \A i \in 1 .. Len(list) - 1 : list[i].date >= list[i + 1].date
        /\ Len(list) = Len(MappedEntries)
        /\ \A i \in DOMAIN MappedEntries :
             Count(list, MappedEntries[i]) = Count(MappedEntries, MappedEntries[i])

C17_Witness ==
  /\ Answered("store")
  /\ Len(job.recentReviews) = MaxRows
  /\ Len(job.lowStock) = MaxRows
  /\ Len(job.planExpiry) = 1
  /\ job.recentReviews[1].date < job.lowStock[MaxRows].date
  /\ job.planExpiry[1].date > job.lowStock[1].date

-----------------------------------------------------------------------------
(* The operations specification: every analytics operation is called by   *)
(* tenants with and without data and by a caller without a profile.       *)

NextOps ==
  \/ \E u \in Users :
        today = 0 /\ Len(Product) < MaxProducts /\ AddProduct(u, Val(2), Val(3), 3, NULL)
  \/ \E u \in Users, p \in ProductIds :
        nextSaleId <= MaxSales /\ AddSale(u, p, 1, 3)
  \/ \E d \in DaySteps : Tick(d)
  \/ \E u \in Users : GetKpis(u)
  \/ \E u \in Users : GetSalesTrend(u, NULL)
  \/ \E u \in Users : GetTopProducts(u)
  \/ \E u \in Users : GetInventory(u)
  \/ \E u \in Users : GetProfitInsights(u)
  \/ \E u \in Users : GetForecast(u, NULL)
  \/ \E u \in Users : GetAlerts(u)
  \/ \E u \in Users : GetHeatmap(u, NULL)
  \/ \E u \in Users, type \in {"json", "csv"} : GetExport(u, Val(0), Val(today), type)

SpecOps == Init /\ [][NextOps]_vars

AnalyticsOps ==
  {"kpis", "salesTrend", "topProducts", "inventory", "profitInsights", "forecast",
   "alerts", "heatmap", "export"}

HasProfile(u) == \E i \in DOMAIN SupplierProfile : SupplierProfile[i].user_id = u

\* C18: an analytics operation called by a user without a supplier profile
\* answers 404 with no aggregate field, having sent no query to the Product
\* or ProductSales table.
C18_NoProfileShortCircuits ==
  (res.op \in AnalyticsOps /\ ~HasProfile(res.user)) =>
    /\ res.status = 404
    /\ res.body = NULL
    /\ queried \cap {"Product", "ProductSales"} = {}

C18_Witness ==
  /\ res.op = "export"
  /\ ~HasProfile(res.user)
  /\ res.status = 404
  /\ ProductSales # <<>>

-----------------------------------------------------------------------------
(* The interleaving specification: GET /alerts and GET /top-products are  *)
(* served query by query while sales are recorded and queries fail.       *)

NextSteps ==
  \/ \E u \in Users :
        Len(Product) < MaxProducts /\ AddProduct(u, Val(2), Val(3), 1, NULL)
  \/ \E u \in Users, p \in ProductIds :
        nextSaleId <= MaxSales /\ AddSale(u, p, 1, 3)
  \/ \E op \in {"alerts", "topProducts"}, u \in Users : Arrive(op, u)
  \/ ProfileStep
  \/ QueryStep
  \/ QueryFails

SpecSteps == Init /\ [][NextSteps]_vars

(* res is the response to the request of job *)
Responded == job.op # "none" /\ job.done /\ res.op = job.op

\* C19: when a query of an analytics operation fails the response is a 500
\* without any aggregate, and a response with status 200 is given only when
\* every query of the operation has returned; so a failure never looks like
\* the response for a tenant without data.
C19_FailureIsExplicit ==
  Responded =>
    /\ job.failed => (res.status = 500 /\ res.body = NULL)
    /\ res.status = 200 =>
         (~job.failed /\ DOMAIN res.body = {QueryLists(job.op)[i] :
                                              i \in 1 .. Len(QueryLists(job.op))})

C19_Witness ==
  /\ Responded
  /\ job.failed
  /\ job.step >= 2
  /\ res.status = 500
  /\ StoreProducts(Num(job.store)) # {}

(* the sale events recorded up to the k-th *)
FirstSales(k) == {s \in SaleIds : s <= k}

\* C20: in one GET /alerts response no product is in both low_stock and
\* out_of_stock, and in one GET /top-products response the three lists are
\* computed from the same set of sale events.
C20_ResponseFromOneSnapshot ==
  /\ Answered("alerts") =>
        {r.id : r \in res.body.low_stock} \cap {r.id : r \in res.body.out_of_stock} = {}
  /\ Answered("topProducts") =>
        \E k \in 0 .. Len(ProductSales) :
          LET of(p) == {s \in FirstSales(k) : ProductSales[s].product_id = p}
              best == res.body.bestSelling
              most == res.body.mostProfitable
          IN  /\ \A i \in DOMAIN best :
                   best[i].total_quantity =
                     Sum([s \in of(best[i].id) |-> ProductSales[s].quantity_sold], of(best[i].id))
              /\ \A i \in DOMAIN most :
                   most[i].total_profit =
                     Sum([s \in of(most[i].id) |-> ProductSales[s].profit], of(most[i].id))

-----------------------------------------------------------------------------
(* Read operations *)

ReadOps == AnalyticsOps \cup {"store"}

(* the request parameters recorded with a response *)
QueryOf(r) == IF "query" \in DOMAIN r THEN r.query ELSE NULL

\* C21: a call of an analytics or dashboard read operation leaves every
\* Product and ProductSales row unchanged, and a call that directly follows
\* a successful call of the same operation by the same user with the same
\* parameters, nothing having been written in between, and succeeds
\* returns the same body.
C21_ReadsChangeNothingAndRepeat ==
  [][/\ res'.op \in ReadOps => (Product' = Product /\ ProductSales' = ProductSales)
     /\ ( /\ res.op \in ReadOps
          /\ res.status = 200
          /\ res'.op = res.op
          /\ res'.status = 200
          /\ res'.user = res.user
          /\ QueryOf(res') = QueryOf(res) ) => res'.body = res.body]_vars

-----------------------------------------------------------------------------
(* The sales specification: sales are recorded, edited and deleted, and   *)
(* the purchase price of a product is edited between them.                *)

NextSales ==
  \/ \E u \in Users :
        Len(Product) < MaxProducts /\ AddProduct(u, Val(2), Val(3), 3, NULL)
  \/ \E u \in Users, p \in ProductIds :
        EditProduct(u, p, [supplier_purchase_price |-> Val(1)])
  \/ \E u \in Users, p \in ProductIds :
        nextSaleId <= MaxSales /\ AddSale(u, p, 1, 3)
  \/ \E u \in Users, id \in 1 .. MaxSales, q \in {NULL, Val(2)}, price \in {NULL, Val(4)} :
        EditSale(u, id, q, price)
  \/ \E u \in Users, id \in 1 .. MaxSales : DeleteSale(u, id)

SpecSales == Init /\ [][NextSales]_vars

(* quantity times the purchase price a sale row's profit was computed from *)
PurchaseCost(sale) == sale.quantity_sold * sale.sold_price_per_unit - sale.profit

\* C22: every stored sale row has total_sale_amount = quantity_sold *
\* sold_price_per_unit and profit = (sold_price_per_unit - the purchase price
\* of its product when the sale was recorded) * quantity_sold: a new row is
\* computed from the product's purchase price of that moment, and every later
\* step keeps the purchase price per unit that the row's profit stands for.
C22_SaleRowsKeepFormulas ==
  [][\A s \in DOMAIN ProductSales' :
       LET new == ProductSales'[s]
       IN  /\ new.total_sale_amount = new.quantity_sold * new.sold_price_per_unit
           /\ IF s \in DOMAIN ProductSales
              THEN PurchaseCost(new) * ProductSales[s].quantity_sold =
                     PurchaseCost(ProductSales[s]) * new.quantity_sold
              ELSE PurchaseCost(new) =
                     Num(Product[new.product_id].supplier_purchase_price) * new.quantity_sold]_vars

(* units of product p in stock or sold *)
UnitsOf(p) ==
  LET sales == {s \in SaleIds : ProductSales[s].product_id = p}
  IN  Product[p].stock_quantity + Sum([s \in sales |-> ProductSales[s].quantity_sold], sales)

\* C27: recording a sale, editing a sale and deleting a sale leave, for
\* every product, stock_quantity plus the quantity_sold of its stored sale
\* rows unchanged.
C27_SaleOperationsConserveUnits ==
  [][res'.op \in {"addSale", "editSale", "deleteSale"} =>
       \A p \in ProductIds :
         Product'[p].stock_quantity
           + Sum([s \in {t \in DOMAIN ProductSales' : ProductSales'[t].product_id = p} |->
                    ProductSales'[s].quantity_sold],
                 {t \in DOMAIN ProductSales' : ProductSales'[t].product_id = p})
         = UnitsOf(p)]_vars

-----------------------------------------------------------------------------
(* The pool specification: queryDB calls of handlers and of the keep-alive *)
(* timer are in flight together while connections are lost.                *)

NextDb ==
  \/ \E c \in Calls : queryDB(c)
  \/ \E k \in 1 .. MaxCalls * MaxAttempts : ConnectionLost(k)
  \/ \E c \in Calls : QueryReturns(c)
  \/ \E c \in Calls, code \in ErrorCodes : QueryThrows(c, code)

SpecDb == Init /\ [][NextDb]_vars

\* C23: a queryDB call attempts its query at most twice: after a lost
\* connection it re-sends the query once and throws when the retry fails too,
\* and any other error is thrown without a retry.
C23_AtMostTwoAttempts ==
  \A c \in Calls :
    /\ calls[c].attempts <= 2
    /\ calls[c].pc = "thrown" =>
         (calls[c].err \notin LostCodes \/ calls[c].attempts = 2)

-----------------------------------------------------------------------------
(* The profile specification: POST /supplier/create requests for users    *)
(* with and without a profile are served together.                        *)

NextCreate ==
  \/ \E r \in Requests, u \in Users : CreateSupplierCheck(r, u)
  \/ \E r \in Requests : CreateSupplierPlan(r)
  \/ \E r \in Requests : CreateSupplierInsert(r)
  \/ \E r \in Requests : CreateSupplierRespond(r)

SpecCreate == Init /\ [][NextCreate]_vars

ProfilesOf(rows, u) == {i \in DOMAIN rows : rows[i].user_id = u}

\* C24: after every step of any interleaving of POST /supplier/create
\* requests each user has at most one SupplierProfile row, and a request made
\* when its user has a profile is answered 409 and inserts nothing.
C24_OneProfilePerUser ==
  [][/\ \A u \in Users : Cardinality(ProfilesOf(SupplierProfile', u)) <= 1
     /\ \A r \in Requests :
          (reqs[r].pc \in {"idle", "done"} /\ reqs'[r] # reqs[r] /\ HasProfile(reqs'[r].user_id)) =>
            (reqs'[r].status = 409 /\ SupplierProfile' = SupplierProfile)]_vars

-----------------------------------------------------------------------------
(* The transaction specification: sales of one product are recorded by    *)
(* transactions that run together.                                        *)

NextTx ==
  \/ \E u \in Users :
        Len(Product) < MaxProducts /\ AddProduct(u, Val(2), Val(3), 1, NULL)
  \/ \E r \in Requests, p \in 1 .. MaxProducts, q \in {1, 2} :
        nextSaleId <= MaxSales /\ TxSaleSelect(r, p, q, 3)
  \/ \E r \in Requests : TxSaleInsert(r)
  \/ \E r \in Requests : TxSaleUpdate(r)
  \/ \E r \in Requests : TxSaleCommit(r)
  \/ \E r \in Requests : TxSaleRollback(r)

SpecTx == Init /\ [][NextTx]_vars

\* C25: under every interleaving of requests to the transactional sale
\* endpoint no product's stock_quantity drops below 0, and a request that
\* ends in a failure leaves ProductSales and the stock as they were; a
\* request whose quantity exceeds the stock is not committed.
C25_TransactionsKeepStockNonNegative ==
  [][/\ \A p \in DOMAIN Product' : Product'[p].stock_quantity >= 0
     /\ \A r \in Requests :
          (reqs'[r] # reqs[r] /\ reqs'[r].pc = "done" /\ reqs'[r].status = 500) =>
            (ProductSales' = ProductSales /\ Product' = Product)]_vars

-----------------------------------------------------------------------------
(* The sale recording specification: POST /api/sales/add requests are     *)
(* served statement by statement and statements fail.                     *)

NextAdd ==
  \/ \E u \in Users, purchase \in {NULL, Val(2)} :
        Len(Product) < MaxProducts /\ AddProduct(u, purchase, Val(3), 3, NULL)
  \/ \E r \in Requests, u \in Users, p \in 0 .. MaxProducts :
        nextSaleId <= MaxSales /\ SaleAddLookup(r, u, p, 1, 3)
  \/ \E r \in Requests : SaleAddInsert(r)
  \/ \E r \in Requests : SaleAddUpdate(r)
  \/ \E r \in Requests : SaleAddFails(r)

SpecAdd == Init /\ [][NextAdd]_vars

\* C26: when a POST /api/sales/add request has ended, whatever statement
\* failed, its sale row has been inserted if and only if the stock has been
\* decremented, and a request answered with a failure status has inserted
\* nothing and decremented nothing.
C26_SaleAddAllOrNothing ==
  \A r \in Requests :
    (reqs[r].pc = "done" /\ reqs[r].op = "addSale") =>
      /\ (reqs[r].sale # 0) <=> reqs[r].decremented
      /\ reqs[r].status # 200 => (reqs[r].sale = 0 /\ ~reqs[r].decremented)

-----------------------------------------------------------------------------
\* C28: on every catalog state GET /inventory labels a product "Low Stock"
\* exactly when GET /alerts lists it in low_stock, and "Out of Stock" exactly
\* when GET /alerts lists it in out_of_stock.
C28_InventoryAndAlertsAgree ==
  \A u \in Users :
    HasProfile(u) =>
      LET store == TenantOf(u)
          alerts == AlertsBody(LowStock(store), OutOfStock(store), AgingInventory(store),
                               HighProfit(store))
      IN  \A p \in StoreProducts(store) :
            /\ InventoryRow(p).stock_status = "Low Stock"
                 <=> p \in {r.id : r \in alerts.low_stock}
            /\ InventoryRow(p).stock_status = "Out of Stock"
                 <=> p \in {r.id : r \in alerts.out_of_stock}

-----------------------------------------------------------------------------
(* The upload specification: POST /product/add requests of the stores are *)
(* served together.                                                       *)

NextUpload ==
  \/ \E r \in Requests, u \in Users : ProductAddCount(r, u)
  \/ \E r \in Requests, stock \in {0, 3} : ProductAddInsert(r, Val(2), Val(3), stock, NULL)

SpecUpload == Init /\ [][NextUpload]_vars

\* C29: after every step of any interleaving of POST /product/add requests
\* no store has more Product rows than its plan's upload_limit, and a request
\* that arrives when the count has reached the limit is answered 403 and
\* inserts nothing.
C29_UploadLimitHolds ==
  [][/\ \A i \in DOMAIN SupplierProfile :
          Cardinality({p \in DOMAIN Product' : Product'[p].store_id = i}) <= Plan.upload_limit
     /\ \A r \in Requests :
          ( /\ reqs[r].pc \in {"idle", "done"}
            /\ reqs'[r] # reqs[r]
            /\ HasProfile(reqs'[r].user)
            /\ Cardinality(StoreProducts(TenantOf(reqs'[r].user))) >= Plan.upload_limit ) =>
            (reqs'[r].status = 403 /\ Product' = Product)]_vars

-----------------------------------------------------------------------------
\* C30: with several queryDB calls in flight the pool is discarded only by
\* the failure of a query that ran on it, never by the late failure of a
\* query issued on an earlier pool, and at most one new pool is created for
\* each loss of a connection.
C30_OnlyTheFailedPoolIsDiscarded ==
  [][/\ (pool # 0 /\ pool' # pool) =>
          \E c \in Calls : calls'[c] # calls[c] /\ calls[c].p = pool
     /\ poolsCreated' <= 1 + Cardinality(lost')]_vars

====
